---- MODULE Spec2Model ----
(***************************************************************************)
(* Model of ATMS/csv_to_geojson.py: a CSV of postal addresses is read,     *)
(* one full_address string is built per row, each non-blank address is     *)
(* geocoded through geopy's RateLimiter around Nominatim.geocode, rows     *)
(* without coordinates are dropped and the rest is written as GeoJSON.     *)
(*                                                                         *)
(* Text is a sequence of one-character strings.  A table cell is a record  *)
(* [na, s]: na marks a missing value (pandas NaN), s is the text.          *)
(* Coordinates are integers in hundredths of a degree, time is in tenths   *)
(* of a second.                                                            *)
(***************************************************************************)
EXTENDS Integers, Sequences, FiniteSets, TLC

\* ---------------------------------------------------------------- bounds
\* rows in the CSV
MaxRows == 3
\* longest time the service takes to answer, in tenths of a second (the
\* timeout of 15 s is far above it)
MaxLatency == 1
\* rows in the CSV when answers take time
MaxTimedRows == 2
\* service errors (timeout, unavailable, quota) in one run
MaxServiceErrors == 3

\* ------------------------------------------------------------- constants
\* RateLimiter(geocoder.geocode, min_delay_seconds=1), in tenths of a second
min_delay_seconds == 10
\* RateLimiter defaults: max_retries=2, error_wait_seconds=5.0
max_retries == 2
error_wait_seconds == 50
\* time.sleep(1.2)
SLEEP_SECONDS == 12

\* configured on line 19; main() never reads it
ADDRESS_COLS == <<"Address", "City", "State/Province", "Postal Code", "Country">>

rename_map ==
    [k \in {"Address", "City", "State/Province", "Postal Code", "Country"} |->
        CASE k = "Address"        -> "address"
          [] k = "City"           -> "city"
          [] k = "State/Province" -> "province"
          [] k = "Postal Code"    -> "postalcode"
          [] k = "Country"        -> "country"]

\* ------------------------------------------------------------ cell values
NA == [na |-> TRUE, s |-> <<>>]
Str(s) == [na |-> FALSE, s |-> s]

None == <<>>
Some(v) == <<v>>
NonePair == <<None, None>>

\* ----------------------------------------------------- pandas string ops
RECURSIVE lstrip(_)
lstrip(s) ==
    IF s = <<>> THEN <<>>
    ELSE IF Head(s) = " " THEN lstrip(Tail(s)) ELSE s

RECURSIVE rstrip(_)
rstrip(s) ==
    IF s = <<>> THEN <<>>
    ELSE IF s[Len(s)] = " " THEN rstrip(SubSeq(s, 1, Len(s) - 1)) ELSE s

\* str.strip()
strip(s) == rstrip(lstrip(s))

\* Series.astype(str): text stays as it is; a missing value becomes the text
\* 'nan' (pandas before 3.0) or stays missing (pandas 3.0 str dtype).
astype_str(cell, keeps_na) ==
    IF cell.na THEN (IF keeps_na THEN NA ELSE Str(<<"n", "a", "n">>)) ELSE cell

\* Series.str.strip(): missing stays missing
str_strip(cell) == IF cell.na THEN NA ELSE Str(strip(cell.s))

\* Series + Series / Series + str: missing absorbs
str_add(a, b) == IF a.na \/ b.na THEN NA ELSE Str(a.s \o b.s)

\* the text after the leading run of commas and spaces
RECURSIVE skip_run(_)
skip_run(s) ==
    IF s = <<>> THEN <<>>
    ELSE IF Head(s) \in {",", " "} THEN skip_run(Tail(s)) ELSE s

\* re.sub(r'[, ]+', ' ', s)
RECURSIVE re_sub(_)
re_sub(s) ==
    IF s = <<>> THEN <<>>
    ELSE IF Head(s) \in {",", " "}
         THEN <<" ">> \o re_sub(skip_run(Tail(s)))
         ELSE <<Head(s)>> \o re_sub(Tail(s))

\* Series.str.replace(r'[, ]+', ' ', regex=True): missing stays missing
str_replace(cell) == IF cell.na THEN NA ELSE Str(re_sub(cell.s))

COMMA_SPACE == Str(<<",", " ">>)

\* the field of one row as lines 32-35 use it: .astype(str).str.strip()
field(row, col, keeps_na) == str_strip(astype_str(row[col], keeps_na))

\* df['full_address'] for one row
FullAddress(row, keeps_na) ==
    str_replace(
        str_add(str_add(str_add(str_add(str_add(str_add(
            field(row, "Address", keeps_na), COMMA_SPACE),
            field(row, "City", keeps_na)), COMMA_SPACE),
            field(row, "State/Province", keeps_na)), COMMA_SPACE),
            field(row, "Country", keeps_na)))

\* is_blank without the addr.strip() == '' test
is_blank_missing_only(addr) == addr.na

\* pd.isna(addr) or addr.strip() == ''
is_blank(addr) == addr.na \/ strip(addr.s) = <<>>

\* ------------------------------------------------------------ input rows
T_1MainSt     == <<"1", " ", "M", "a", "i", "n", " ", "S", "t">>
T_Springfield == <<"S", "p", "r", "i", "n", "g", "f", "i", "e", "l", "d">>
T_IL          == <<"I", "L">>
T_62701       == <<"6", "2", "7", "0", "1">>
T_USA         == <<"U", "S", "A">>

MkRow(a, c, s, p, n) ==
    [col \in {"Address", "City", "State/Province", "Postal Code", "Country"} |->
        CASE col = "Address"        -> a
          [] col = "City"           -> c
          [] col = "State/Province" -> s
          [] col = "Postal Code"    -> p
          [] col = "Country"        -> n]

\* the row of the end-to-end scenario
RowMain == MkRow(Str(T_1MainSt), Str(T_Springfield), Str(T_IL), Str(T_62701), Str(T_USA))
\* the same row with an empty Address field (read_csv gives NaN)
RowNoAddress == MkRow(NA, Str(T_Springfield), Str(T_IL), Str(T_62701), Str(T_USA))
\* address fields holding only spaces and commas
RowBlank == MkRow(Str(<<" ">>), Str(<<" ", " ">>), Str(<<",">>), Str(T_62701), Str(<<" ">>))
Rows == {RowMain, RowNoAddress, RowBlank}

\* the tables of at most n rows drawn from R
RECURSIVE Tables(_, _)
Tables(R, n) ==
    IF n = 0 THEN {<<>>}
    ELSE LET shorter == Tables(R, n - 1)
         IN  shorter \cup {Append(t, r) : t \in {u \in shorter : Len(u) = n - 1}, r \in R}

\* what Nominatim can answer a query with when it finds a match: (latitude,
\* longitude) in hundredths of a degree.  The service is a gazetteer: the place
\* it finds depends on the query text alone.
Locations(query) ==
    IF query = FullAddress(RowMain, FALSE).s
    THEN {[latitude |-> 3978, longitude |-> -8965]}
    ELSE {[latitude |-> 4171, longitude |-> -8763]}

\* --------------------------------------------------------------- state
VARIABLES
    pc,             \* position in main(): format, loop, acquire, request, sleep,
                    \* filter, export, done, aborted, failed
    df,             \* the table read by pd.read_csv
    str_keeps_na,   \* whether astype(str) of the installed pandas keeps NaN
    full_address,   \* df['full_address']
    i,              \* 1-based position of the loop over df['full_address']
    coords,         \* the list coords
    tries,          \* retries made by the RateLimiter for the current call
    clock,          \* time
    last_call,      \* RateLimiter._last_call
    calls,          \* requests received by the geocoding service: [row, query]
    results,        \* its answer to each request: [kind, loc]
    slept,          \* rows after which time.sleep(1.2) ran
    kept,           \* index of df after dropna
    reported,       \* X, Y of 'Successfully geocoded X / Y rows'
    out_file,       \* atms.geojson
    saved,          \* the count of 'Saved -> atms.geojson (N points)'
    exit_msg,       \* the message the process exits with
    interrupted_at  \* where KeyboardInterrupt arrived

vars == <<pc, df, str_keeps_na, full_address, i, coords, tries, clock, last_call,
          calls, results, slept, kept, reported, out_file, saved, exit_msg,
          interrupted_at>>

NoFile == [state |-> "absent", features |-> <<>>]

\* the state after pd.read_csv returned a table of T, under a pandas whose
\* astype(str) keeps NaN or not as B allows
InitWith(T, B) ==
    /\ pc = "format"
    /\ df \in T
    /\ str_keeps_na \in B
    /\ full_address = <<>>
    /\ i = 1
    /\ coords = <<>>
    /\ tries = 0
    /\ clock = 0
    /\ last_call = None
    /\ calls = <<>>
    /\ results = <<>>
    /\ slept = {}
    /\ kept = <<>>
    /\ reported = None
    /\ out_file = NoFile
    /\ saved = None
    /\ exit_msg = None
    /\ interrupted_at = None

\* lines 31-36
BuildFullAddress ==
    /\ pc = "format"
    /\ full_address' = [k \in 1..Len(df) |-> FullAddress(df[k], str_keeps_na)]
    /\ pc' = "loop"
    /\ UNCHANGED <<df, str_keeps_na, i, coords, tries, clock, last_call, calls, results,
                   slept, kept, reported, out_file, saved, exit_msg, interrupted_at>>

\* lines 40-42: a blank address gets (None, None) and the loop continues
LoopSkip ==
    /\ pc = "loop"
    /\ i <= Len(full_address)
    /\ is_blank(full_address[i])
    /\ coords' = Append(coords, NonePair)
    /\ i' = i + 1
    /\ UNCHANGED <<pc, df, str_keeps_na, full_address, tries, clock, last_call, calls,
                   results, slept, kept, reported, out_file, saved, exit_msg,
                   interrupted_at>>

\* lines 43-44: geocode(addr, timeout=15) is entered
LoopTry ==
    /\ pc = "loop"
    /\ i <= Len(full_address)
    /\ ~is_blank(full_address[i])
    /\ tries' = 0
    /\ pc' = "acquire"
    /\ UNCHANGED <<df, str_keeps_na, full_address, i, coords, clock, last_call, calls,
                   results, slept, kept, reported, out_file, saved, exit_msg,
                   interrupted_at>>

\* RateLimiter._acquire_request_slot: how long to sleep before the next request
slot_wait(now, last) ==
    IF last = None THEN 0
    ELSE IF min_delay_seconds - (now - last[1]) > 0
         THEN min_delay_seconds - (now - last[1]) ELSE 0

\* RateLimiter.__call__: wait for the slot, then send the request
AcquireSlot ==
    /\ pc = "acquire"
    /\ clock' = clock + slot_wait(clock, last_call)
    /\ last_call' = Some(clock')
    /\ calls' = Append(calls, [row |-> i, query |-> full_address[i].s])
    /\ pc' = "request"
    /\ UNCHANGED <<df, str_keeps_na, full_address, i, coords, tries, results, slept,
                   kept, reported, out_file, saved, exit_msg, interrupted_at>>

\* hit_pair losing the longitude
hit_pair_partial(loc) == <<Some(loc.latitude), None>>

\* (loc.latitude, loc.longitude)
hit_pair(loc) == <<Some(loc.latitude), Some(loc.longitude)>>

NoLoc == [latitude |-> 0, longitude |-> 0]

\* lines 44-45, 48: the service answers with a match
GeocodeHit(L) ==
    /\ pc = "request"
    /\ \E lat \in L, loc \in Locations(calls[Len(calls)].query) :
          /\ clock' = clock + lat
          /\ results' = Append(results, [kind |-> "hit", loc |-> loc])
          /\ coords' = Append(coords, hit_pair(loc))
    /\ pc' = "sleep"
    /\ UNCHANGED <<df, str_keeps_na, full_address, i, tries, last_call, calls, slept,
                   kept, reported, out_file, saved, exit_msg, interrupted_at>>

\* lines 44-45, 48: the service answers None
GeocodeNoMatch(L) ==
    /\ pc = "request"
    /\ \E lat \in L : clock' = clock + lat
    /\ results' = Append(results, [kind |-> "nomatch", loc |-> NoLoc])
    /\ coords' = Append(coords, NonePair)
    /\ pc' = "sleep"
    /\ UNCHANGED <<df, str_keeps_na, full_address, i, tries, last_call, calls, slept,
                   kept, reported, out_file, saved, exit_msg, interrupted_at>>

\* is_last_try of a limiter that retries without end
is_last_try_never(n) == FALSE

\* RateLimiter._retries_gen: the try after max_retries retries is the last one
is_last_try(n) == n >= max_retries

ServiceErrors == Cardinality({j \in DOMAIN results : results[j].kind = "service_error"})

\* RateLimiter.__call__ on GeocoderServiceError (timeout, unavailable, quota):
\* up to max_retries it sleeps error_wait_seconds and tries again; after the
\* last try it swallows the error and returns None, so c = (None, None)
GeocodeServiceError(L) ==
    /\ pc = "request"
    /\ ServiceErrors < MaxServiceErrors
    /\ \E lat \in L :
          /\ results' = Append(results, [kind |-> "service_error", loc |-> NoLoc])
          /\ IF is_last_try(tries)
             THEN /\ clock' = clock + lat
                  /\ coords' = Append(coords, NonePair)
                  /\ pc' = "sleep"
                  /\ UNCHANGED tries
             ELSE /\ clock' = clock + lat + error_wait_seconds
                  /\ tries' = tries + 1
                  /\ pc' = "acquire"
                  /\ UNCHANGED coords
    /\ UNCHANGED <<df, str_keeps_na, full_address, i, last_call, calls, slept, kept,
                   reported, out_file, saved, exit_msg, interrupted_at>>

\* GeocodeOtherError without the try/except of lines 43-47
GeocodeOtherErrorUncaught(L) ==
    /\ pc = "request"
    /\ \E lat \in L :
          /\ clock' = clock + lat
          /\ results' = Append(results, [kind |-> "error", loc |-> NoLoc])
    /\ pc' = "failed"
    /\ exit_msg' = Some("Traceback")
    /\ UNCHANGED <<df, str_keeps_na, full_address, i, coords, tries, last_call, calls,
                   slept, kept, reported, out_file, saved, interrupted_at>>

\* lines 46-48: any other exception leaves geocode() and is caught by the loop
GeocodeOtherError(L) ==
    /\ pc = "request"
    /\ \E lat \in L : clock' = clock + lat
    /\ results' = Append(results, [kind |-> "error", loc |-> NoLoc])
    /\ coords' = Append(coords, NonePair)
    /\ pc' = "sleep"
    /\ UNCHANGED <<df, str_keeps_na, full_address, i, tries, last_call, calls, slept,
                   kept, reported, out_file, saved, exit_msg, interrupted_at>>

\* Sleep that pauses only after a row that got coordinates
SleepOnSuccessOnly ==
    /\ pc = "sleep"
    /\ clock' = IF coords[i] = NonePair THEN clock ELSE clock + SLEEP_SECONDS
    /\ slept' = slept \cup {i}
    /\ i' = i + 1
    /\ pc' = "loop"
    /\ UNCHANGED <<df, str_keeps_na, full_address, coords, tries, last_call, calls,
                   results, kept, reported, out_file, saved, exit_msg, interrupted_at>>

\* lines 49-50: print the row, time.sleep(1.2), next row
Sleep ==
    /\ pc = "sleep"
    /\ clock' = clock + SLEEP_SECONDS
    /\ slept' = slept \cup {i}
    /\ i' = i + 1
    /\ pc' = "loop"
    /\ UNCHANGED <<df, str_keeps_na, full_address, coords, tries, last_call, calls,
                   results, kept, reported, out_file, saved, exit_msg, interrupted_at>>

\* ------------------------------------------------------------- export
\* latitude / longitude of row k after line 52 (None becomes NaN)
latitude(k)  == coords[k][1]
longitude(k) == coords[k][2]

\* dropna that drops nothing
dropna_keeps_all(cs, k) == [j \in 1..(Len(cs) - k + 1) |-> j + k - 1]

\* df.dropna(subset=['latitude', 'longitude']): the index labels that stay
RECURSIVE dropna(_, _)
dropna(cs, k) ==
    IF k > Len(cs) THEN <<>>
    ELSE IF cs[k][1] # None /\ cs[k][2] # None
         THEN <<k>> \o dropna(cs, k + 1)
         ELSE dropna(cs, k + 1)

\* lines 52-56: attach the coordinates, drop failures, report
FilterRows ==
    /\ pc = "loop"
    /\ i > Len(full_address)
    /\ kept' = dropna(coords, 1)
    /\ reported' = Some(<<Len(kept'), Len(coords)>>)
    /\ pc' = "export"
    /\ UNCHANGED <<df, str_keeps_na, full_address, i, coords, tries, clock, last_call,
                   calls, results, slept, out_file, saved, exit_msg, interrupted_at>>

\* the columns of df after line 52
Columns == {"Address", "City", "State/Province", "Postal Code", "Country",
            "full_address", "latitude", "longitude"}

\* pd.DataFrame(coords, ...): a column of floats, None becomes NaN
float(c) == IF c = None THEN "NaN" ELSE c[1]

\* one row of df after line 55
Record(k) ==
    [col \in Columns |->
        CASE col = "full_address" -> full_address[k]
          [] col = "latitude"     -> float(latitude(k))
          [] col = "longitude"    -> float(longitude(k))
          [] OTHER                -> df[k][col]]

\* line 67: the new name of a column
new_name(col) == IF col \in DOMAIN rename_map THEN rename_map[col] ELSE col

\* df.rename(columns=...) on one row
rename(rec) ==
    [name \in {new_name(col) : col \in DOMAIN rec} |->
        rec[CHOOSE col \in DOMAIN rec : new_name(col) = name]]

\* gpd.points_from_xy(x, y)
points_from_xy(x, y) == <<x, y>>

\* geometry with the axes exchanged
geometry_swapped(rec) == points_from_xy(rec["latitude"], rec["longitude"])

\* geometry=gpd.points_from_xy(df.longitude, df.latitude)
geometry(rec) == points_from_xy(rec["longitude"], rec["latitude"])

\* lines 58-74: one feature of gdf
Feature(k) == [properties |-> rename(Record(k)), geometry |-> geometry(rename(Record(k)))]

\* lines 58-77: rename, build the GeoDataFrame, write atms.geojson, report
ExportGeoJSON ==
    /\ pc = "export"
    /\ out_file' = [state |-> "complete",
                    features |-> [j \in 1..Len(kept) |-> Feature(kept[j])]]
    /\ saved' = Some(Len(out_file'.features))
    /\ pc' = "done"
    /\ UNCHANGED <<df, str_keeps_na, full_address, i, coords, tries, clock, last_call,
                   calls, results, slept, kept, reported, exit_msg, interrupted_at>>

\* line 76 raises (path not writable, driver error): the traceback ends the run
ExportFail ==
    /\ pc = "export"
    /\ pc' = "failed"
    /\ exit_msg' = Some("Traceback")
    /\ UNCHANGED <<df, str_keeps_na, full_address, i, coords, tries, clock, last_call,
                   calls, results, slept, kept, reported, out_file, saved,
                   interrupted_at>>

\* Interrupt caught by the loop's except clause, as a bare except would
InterruptSwallowed ==
    /\ pc = "request"
    /\ interrupted_at' = Some(pc)
    /\ results' = Append(results, [kind |-> "error", loc |-> NoLoc])
    /\ coords' = Append(coords, NonePair)
    /\ pc' = "sleep"
    /\ UNCHANGED <<df, str_keeps_na, full_address, i, tries, clock, last_call, calls,
                   slept, kept, reported, out_file, saved, exit_msg>>

PartialFile == [state |-> "partial", features |-> <<>>]

\* lines 80-83: KeyboardInterrupt is not an Exception, so line 46 does not
\* catch it; it leaves main() and the process exits with 'Aborted by user'.
\* During lines 58-77 it may arrive before or in the middle of to_file.
Interrupt ==
    /\ pc \in {"format", "loop", "acquire", "request", "sleep", "export"}
    /\ interrupted_at' = Some(pc)
    /\ pc' = "aborted"
    /\ exit_msg' = Some("Aborted by user")
    /\ IF pc = "export" THEN out_file' \in {out_file, PartialFile}
                        ELSE UNCHANGED out_file
    /\ UNCHANGED <<df, str_keeps_na, full_address, i, coords, tries, clock, last_call,
                   calls, results, slept, kept, reported, saved>>

\* main() with a geocoding service whose answers take a time in L
Run(L) ==
    \/ BuildFullAddress
    \/ LoopSkip
    \/ LoopTry
    \/ AcquireSlot
    \/ GeocodeHit(L)
    \/ GeocodeNoMatch(L)
    \/ GeocodeServiceError(L)
    \/ GeocodeOtherError(L)
    \/ Sleep
    \/ FilterRows
    \/ ExportGeoJSON
    \/ ExportFail
    \/ Interrupt

\* every table of up to MaxRows rows, the service answering at once
Init == InitWith(Tables(Rows, MaxRows), BOOLEAN)
Next == Run({0})
Spec == Init /\ [][Next]_vars

\* the timing of the loop: answers take up to MaxLatency; the tables hold no
\* missing value, so the pandas version makes no difference
InitTimed == InitWith(Tables({RowMain, RowBlank}, MaxTimedRows), {FALSE})
NextTimed == Run(0..MaxLatency)
SpecTimed == InitTimed /\ [][NextTimed]_vars

\* ============================================================== claims
Max(S) == CHOOSE x \in S : \A y \in S : y <= x

\* the requests made for row k
CallsFor(k) == {j \in DOMAIN calls : calls[j].row = k}

\* an address that is absent, empty or made of spaces only
AllBlank(addr) == addr.na \/ \A j \in DOMAIN addr.s : addr.s[j] = " "

\* the rows whose result has both coordinates
BothPresent == {k \in DOMAIN coords : coords[k][1] # None /\ coords[k][2] # None}

\* the kind of the last answer the service gave for row k ("" without a request)
LastKind(k) == IF CallsFor(k) = {} \/ Max(CallsFor(k)) > Len(results) THEN ""
               ELSE results[Max(CallsFor(k))].kind

\* C1: every recorded result has both coordinates or neither, whichever path
\* (blank address, match, no match or error) produced it.
C1_BothOrNeither ==
    \A k \in DOMAIN coords : (coords[k][1] = None) <=> (coords[k][2] = None)

C1_Witness ==
    /\ pc = "export"
    /\ \E a, b, c \in DOMAIN coords :
          /\ AllBlank(full_address[a]) /\ coords[a] = NonePair
          /\ LastKind(b) = "hit" /\ coords[b] # NonePair
          /\ LastKind(c) \in {"nomatch", "error", "service_error"} /\ coords[c] = NonePair

\* C2: a row whose full_address is absent, empty or whitespace-only gets
\* (None, None), no request is sent for it, and neither the rate limiter nor
\* the post-call sleep spends time on it.
C2_BlankRowsSkipped ==
    \A k \in DOMAIN coords :
        AllBlank(full_address[k]) =>
            /\ coords[k] = NonePair
            /\ CallsFor(k) = {}
            /\ k \notin slept

C2_Witness ==
    /\ pc = "export"
    /\ \E k \in DOMAIN coords :
          /\ k > 1
          /\ ~full_address[k].na /\ full_address[k].s = <<" ">>
          /\ CallsFor(k - 1) # {}
          /\ Len(calls) = Cardinality(CallsFor(k - 1))

\* C3: at the end of a complete run the features written, the X reported and
\* the N saved all equal the number of rows with both coordinates, and Y is
\* the number of input rows.
C3_Counts ==
    pc = "done" =>
        /\ out_file.state = "complete"
        /\ Len(out_file.features) = Cardinality(BothPresent)
        /\ reported = Some(<<Cardinality(BothPresent), Len(df)>>)
        /\ saved = Some(Cardinality(BothPresent))

C3_Witness ==
    /\ pc = "done"
    /\ Len(df) = 3
    /\ Cardinality(BothPresent) = 1
    /\ \E k \in DOMAIN coords : AllBlank(full_address[k])
    /\ \E k \in DOMAIN coords : LastKind(k) = "nomatch"

FiveFieldAddress(row, keeps_na) ==
    str_replace(
        str_add(str_add(str_add(str_add(str_add(str_add(str_add(str_add(
            field(row, "Address", keeps_na), COMMA_SPACE),
            field(row, "City", keeps_na)), COMMA_SPACE),
            field(row, "State/Province", keeps_na)), COMMA_SPACE),
            field(row, "Postal Code", keeps_na)), COMMA_SPACE),
            field(row, "Country", keeps_na)))

\* C5: full_address is built from all five address fields in order, so the
\* scenario row gives '1 Main St Springfield IL 62701 USA'.
C5_FiveFields ==
    \A k \in DOMAIN full_address :
        /\ full_address[k] = FiveFieldAddress(df[k], str_keeps_na)
        /\ df[k] = RowMain =>
              full_address[k] = Str(T_1MainSt \o <<" ">> \o T_Springfield \o <<" ">>
                                    \o T_IL \o <<" ">> \o T_62701 \o <<" ">> \o T_USA)

C7_AbortWritesNothing ==
    /\ interrupted_at # None => pc = "aborted" /\ exit_msg = Some("Aborted by user")
    /\ exit_msg = Some("Aborted by user") => interrupted_at # None
    /\ (interrupted_at # None /\ interrupted_at[1] \in {"loop", "acquire", "request", "sleep"})
          => out_file = NoFile /\ saved = None
    /\ out_file # NoFile => Len(coords) = Len(df) /\ i > Len(df)

C7_Witness ==
    /\ pc = "aborted"
    /\ interrupted_at = Some("request")
    /\ BothPresent # {}
    /\ Len(coords) < Len(df)
    /\ out_file = NoFile

\* a row whose Address is empty while its other address fields are filled
EmptyAddressOnly(row) ==
    /\ row["Address"].na
    /\ \A col \in {"City", "State/Province", "Postal Code", "Country"} :
          ~row[col].na /\ ~AllBlank(row[col])

\* C8: a row with an empty Address field (the others filled) gets no request
\* and is not written, while Y still counts it.
C8_EmptyAddressExcluded ==
    \A k \in DOMAIN coords :
        EmptyAddressOnly(df[k]) =>
            /\ CallsFor(k) = {}
            /\ pc = "done" => /\ \A j \in DOMAIN kept : kept[j] # k
                              /\ reported[1][2] = Len(df)

\* C9: a request starts at least 1 s after the start of the one before it
\* and only once that one has been answered; the step that takes the loop on
\* from a geocoded row, whatever its outcome, is a sleep of 1.2 s.
C9_Pacing ==
    [][
        /\ Len(calls') > Len(calls) =>
              /\ Len(results) = Len(calls)
              /\ last_call # None => clock' - last_call[1] >= 10
              /\ last_call' = Some(clock')
        /\ Len(results') > Len(results) => Len(calls) = Len(results) + 1
        /\ (i' # i /\ CallsFor(i) # {}) =>
              /\ i' = i + 1
              /\ Len(results) = Len(calls)
              /\ clock' - clock = 12
              /\ slept' = slept \cup {i}
        /\ clock' >= clock
    ]_vars

C9_Witness ==
    /\ pc = "export"
    /\ Len(df) = 2
    /\ LastKind(1) = "error"
    /\ Cardinality(CallsFor(1)) = 2
    /\ LastKind(2) = "hit"
    /\ clock > 50 + 12 + 12
    /\ slept = {1, 2}

\* C10: every feature comes from one surviving row, in row order; its point
\* is (longitude, latitude) of the match the service returned for that row's
\* own address, and it keeps the row's Address under 'address'.
C10_FeaturesAligned ==
    pc = "done" =>
        /\ Len(out_file.features) = Len(kept)
        /\ \A j \in DOMAIN kept :
              /\ kept[j] \in DOMAIN df
              /\ j > 1 => kept[j - 1] < kept[j]
              /\ CallsFor(kept[j]) # {}
              /\ LET k == kept[j]
                     c == Max(CallsFor(k))
                     f == out_file.features[j]
                 IN  /\ calls[c].query = full_address[k].s
                     /\ results[c].kind = "hit"
                     /\ f.geometry = <<results[c].loc.longitude, results[c].loc.latitude>>
                     /\ f.properties["address"] = df[k]["Address"]
                     /\ (df[k] = RowMain /\ results[c].loc = [latitude |-> 3978, longitude |-> -8965])
                           => f.geometry = <<-8965, 3978>> /\ f.properties["address"] = Str(T_1MainSt)

C10_Witness ==
    /\ pc = "done"
    /\ Len(df) = 3
    /\ Len(kept) = 2
    /\ kept[1] = 2
    /\ df[3] = RowMain
    /\ out_file.features[2].geometry = <<-8965, 3978>>
    /\ out_file.features[1].geometry = <<-8763, 4171>>
    /\ out_file.features[2].properties["address"] = Str(T_1MainSt)

====
